---- MODULE Spec2Model ----
(***************************************************************************)
(* A model of the AIssist plugin (src/main.ts, src/settings.ts): the       *)
(* document-as-conversation codec, the prompt extractor, the frontmatter   *)
(* upsert and the two commands.  Text is a sequence of one-character       *)
(* strings; offsets are 0-based as in the source.                          *)
(***************************************************************************)
EXTENDS Integers, Sequences, FiniteSets, TLC

VARIABLES
    doc,        \* the editor buffer (editor.getValue())
    cursor,     \* the cursor (selection head), as an offset into doc
    selFrom,    \* the selection anchor, as an offset; selFrom = cursor: no selection
    settings,   \* this.settings
    cache,      \* app.metadataCache's frontmatter of the note
    now,        \* the wall clock read by insertTimestamp
    pc,         \* "idle", or "pending" while a command awaits its request
    req,        \* what the pending command captured before its await
    out,        \* the outcome of the last operation
    hist,       \* the document and cursor at the steps of the last command
    ncmd        \* number of operations started so far

vars == <<doc, cursor, selFrom, settings, cache, now, pc, req, out, hist, ncmd>>

-----------------------------------------------------------------------------
(* Bounds of the model *)

\* longest list of encoded turns in a generated document
MaxTurns == 4
\* number of operations in one behaviour
MaxCommands == 2
\* longest generated document body, in pieces
MaxPieces == 3
\* longest generated turn content, in characters
MaxContent == 3

-----------------------------------------------------------------------------
(* Text *)

MARKER_START ==
    <<"%", "%", " ", "A", "I", "s", "s", "i", "s", "t">>
MARKER_END ==
    <<"%", "%">>
USER_EMOJI ==
    <<":", "t", "e", "c", "h", "n", "o", "l", "o", "g", "i", "s", "t", ":">>
OPEN_AI_CHAT_SYSTEM_MESSAGE ==
    <<"Y", "o", "u", " ", "a", "r", "e", " ", "a", " ", "h", "e", "l", "p", "f", "u", "l",
      " ", "a", "s", "s", "i", "s", "t", "a", "n", "t">>

NL == "\n"
\* the backtick character (the one character a string literal here cannot hold)
Backtick == "backtick"
\* the characters String.prototype.trim removes, among those the model uses
WhiteSpace == {" ", "\n", "\t", "\r"}

SetMin(S) == CHOOSE x \in S : \A y \in S : x <= y
SetMax(S) == CHOOSE x \in S : \A y \in S : x >= y
Min2(a, b) == IF a <= b THEN a ELSE b
Max2(a, b) == IF a >= b THEN a ELSE b

\* s.substring(from, to), offsets clamped to the string as JavaScript does
Substring(s, from, to) ==
    LET a == Max2(0, Min2(from, Len(s)))
        b == Max2(0, Min2(to, Len(s)))
    IN  SubSeq(s, Min2(a, b) + 1, Max2(a, b))

\* does pat occur in s at offset i
StartsAt(s, pat, i) ==
    /\ i >= 0
    /\ i + Len(pat) <= Len(s)
    /\ \A k \in 1..Len(pat) : s[i + k] = pat[k]

\* the offsets at or after from where pat occurs in s
Occurrences(s, pat, from) ==
    {i \in from..(Len(s) - Len(pat)) : StartsAt(s, pat, i)}

\* s.indexOf(pat, from): the first occurrence, or -1
IndexOf(s, pat, from) ==
    LET hits == Occurrences(s, pat, from)
    IN  IF hits = {} THEN -1 ELSE SetMin(hits)

\* s.trim()
Trim(s) ==
    LET keep == {i \in 1..Len(s) : s[i] \notin WhiteSpace}
    IN  IF keep = {} THEN <<>> ELSE SubSeq(s, SetMin(keep), SetMax(keep))

\* s.split('\n'): the lines of s, always at least one
Split(s) ==
    LET nl == {i \in 1..Len(s) : s[i] = NL}
        n  == Cardinality(nl)
        \* at[k]: the index of the k-th line break, then Len(s) + 1 as a fence
        at == SubSeq([k \in 1..n |->
                         CHOOSE i \in nl : Cardinality({j \in nl : j < i}) = k - 1],
                     1, n) \o <<Len(s) + 1>>
    IN  SubSeq([k \in 1..(n + 1) |->
                   SubSeq(s, (IF k = 1 THEN 0 ELSE at[k - 1]) + 1, at[k] - 1)],
               1, n + 1)

\* lines.join('\n')
RECURSIVE Join(_)
Join(lines) ==
    IF Len(lines) = 0 THEN <<>>
    ELSE IF Len(lines) = 1 THEN lines[1]
    ELSE lines[1] \o <<NL>> \o Join(Tail(lines))

Digit(d) == <<"0", "1", "2", "3", "4", "5", "6", "7", "8", "9">>[d + 1]

\* n.toString() of a non-negative integer
RECURSIVE NumToString(_)
NumToString(n) ==
    IF n < 10 THEN <<Digit(n)>> ELSE NumToString(n \div 10) \o <<Digit(n % 10)>>

\* s.padStart(2, '0')
PadStart2(s) == IF Len(s) < 2 THEN <<"0">> \o s ELSE s

-----------------------------------------------------------------------------
(* insertTimestamp and the two turn encodings *)

insertTimestamp ==
    LET year   == NumToString(now.year)
        month  == PadStart2(NumToString(now.month - 1))  \* Date.getMonth() is 0-based
        day    == PadStart2(NumToString(now.day))
        hour   == PadStart2(NumToString(now.hour))
        minute == PadStart2(NumToString(now.minute))
    IN  year \o <<"-">> \o month \o <<"-">> \o day \o <<"T">> \o hour \o <<":">> \o minute

\* rawPrompt.split('\n').map(line => `> ${line}`).join('\n')
RECURSIVE QuoteLines(_)
QuoteLines(lines) ==
    IF Len(lines) = 0 THEN <<>>
    ELSE <<(<<">", " ">> \o lines[1])>> \o QuoteLines(Tail(lines))

\* formattedPrompt of parsePrompt: the encoded user turn
formattedPrompt(rawPrompt) ==
    <<">", " ">> \o MARKER_START
        \o <<";", " ", "r", "o", "l", "e", ":", "u", "s", "e", "r", ";", " ">>
        \o insertTimestamp \o <<" ">> \o MARKER_END \o USER_EMOJI \o <<NL>>
        \o Join(QuoteLines(Split(rawPrompt))) \o <<NL>>

\* replyContent of insertResponse: the encoded assistant turn
replyContent(content) ==
    <<NL>> \o MARKER_START
        \o <<";", " ", "r", "o", "l", "e", ":", "a", "s", "s", "i", "s", "t", "a", "n", "t", ";", " ">>
        \o MARKER_END \o <<" ">> \o content

-----------------------------------------------------------------------------
(* parseMessages *)

RoleSystem == <<"s", "y", "s", "t", "e", "m">>
RoleUser == <<"u", "s", "e", "r">>
RoleAssistant == <<"a", "s", "s", "i", "s", "t", "a", "n", "t">>

NoMatch == [index |-> -1]

\* messageRegex tried at offset p:
\*   %% AIssist; role:(.*?);.*?%%(.*?)(?=%% AIssist|$)   with flags g and s
messageRegexAt(s, p) ==
    LET head == MARKER_START \o <<";", " ", "r", "o", "l", "e", ":">>
    IN  IF ~StartsAt(s, head, p) THEN NoMatch
        ELSE LET r0   == p + Len(head)
                 semi == IndexOf(s, <<";">>, r0)
                 e    == IF semi = -1 THEN -1 ELSE IndexOf(s, MARKER_END, semi + 1)
             IN  IF e = -1 THEN NoMatch
                 ELSE LET c0  == e + Len(MARKER_END)
                          nxt == IndexOf(s, MARKER_START, c0)
                          c1  == IF nxt = -1 THEN Len(s) ELSE nxt
                      IN  [index |-> p,
                           role |-> Substring(s, r0, semi),
                           content |-> Substring(s, c0, c1),
                           lastIndex |-> c1]

\* messageRegex.exec(s) with the regex's lastIndex at from
messageRegexExec(s, from) ==
    LET hits == {p \in from..Len(s) : messageRegexAt(s, p) # NoMatch}
    IN  IF hits = {} THEN NoMatch ELSE messageRegexAt(s, SetMin(hits))

\* content.replace(/^>|>$/g, '')
StripLeadingTrailingGt(s) ==
    LET a == IF Len(s) > 0 /\ s[1] = ">" THEN 1 ELSE 0
        b == IF Len(s) > a /\ s[Len(s)] = ">" THEN Len(s) - 1 ELSE Len(s)
    IN  Substring(s, a, b)

\* the body of the exec loop: one match turned into a message
cleanMessage(m) ==
    LET role == Trim(m.role)
        c1   == IF StartsAt(m.content, USER_EMOJI, 0)
                THEN Substring(m.content, Len(USER_EMOJI), Len(m.content))
                ELSE m.content
        c2   == Trim(c1)
        c3   == StripLeadingTrailingGt(c2)
    IN  [role |-> role, content |-> Trim(c3)]

\* the exec loop of parseMessages: every block of the document, in order
RECURSIVE decodeMessages(_, _)
decodeMessages(s, lastIndex) ==
    IF lastIndex > Len(s) THEN <<>>
    ELSE LET m == messageRegexExec(s, lastIndex)
         IN  IF m = NoMatch THEN <<>>
             ELSE <<cleanMessage(m)>>
                    \o decodeMessages(s, IF m.index = m.lastIndex
                                         THEN m.lastIndex + 1 ELSE m.lastIndex)

IsSystem(message) == message.role = RoleSystem
IsNotSystem(message) == message.role # RoleSystem

\* a.slice(-k) for k > 0
SliceLast(a, k) == SubSeq(a, Max2(1, Len(a) - k + 1), Len(a))

\* the window of parseMessages, with a plausible slip: slice(remainingSlots)
windowSlipped(messages, maxMessages) ==
    IF Len(messages) > maxMessages
    THEN LET systemMessages == SelectSeq(messages, IsSystem)
             remainingSlots == maxMessages - Len(systemMessages)
             rest == SelectSeq(messages, IsNotSystem)
         IN  systemMessages \o (IF remainingSlots > 0
                                THEN SubSeq(rest, remainingSlots + 1, Len(rest))
                                ELSE <<>>)
    ELSE messages

\* the window of parseMessages without its guard remainingSlots > 0
windowUnguarded(messages, maxMessages) ==
    IF Len(messages) > maxMessages
    THEN LET systemMessages == SelectSeq(messages, IsSystem)
             remainingSlots == maxMessages - Len(systemMessages)
             rest == SelectSeq(messages, IsNotSystem)
             nonSystemMessages ==
                 IF remainingSlots > 0 THEN SliceLast(rest, remainingSlots)
                 ELSE SubSeq(rest, 1 - remainingSlots, Len(rest))
         IN  systemMessages \o nonSystemMessages
    ELSE messages

\* the window of parseMessages (lines 174-188)
window(messages, maxMessages) ==
    IF Len(messages) > maxMessages
    THEN LET systemMessages == SelectSeq(messages, IsSystem)
             remainingSlots == maxMessages - Len(systemMessages)
             nonSystemMessages ==
                 IF remainingSlots > 0
                 THEN SliceLast(SelectSeq(messages, IsNotSystem), remainingSlots)
                 ELSE <<>>
         IN  systemMessages \o nonSystemMessages
    ELSE messages

parseMessages(editorContent, maxMessages) ==
    window(decodeMessages(editorContent, 0), maxMessages)

-----------------------------------------------------------------------------
(* The editing surface, as main.ts uses it: positions are {line, ch} *)

NewLines(d) == {i \in 1..Len(d) : d[i] = NL}

\* the offset at which line number line (0-based) of d starts
LineStart(d, line) ==
    IF line = 0 THEN 0
    ELSE CHOOSE i \in NewLines(d) : Cardinality({j \in NewLines(d) : j <= i}) = line

LineCount(d) == Cardinality(NewLines(d)) + 1

LineLength(d, line) ==
    LET start == LineStart(d, line)
        ends  == {i \in NewLines(d) : i > start}
    IN  (IF ends = {} THEN Len(d) ELSE SetMin(ends) - 1) - start

\* editor.offsetToPos(offset): offsets outside the document are clamped
offsetToPos(d, offset) ==
    LET o    == Max2(0, Min2(offset, Len(d)))
        line == Cardinality({i \in NewLines(d) : i <= o})
    IN  [line |-> line, ch |-> o - LineStart(d, line)]

\* editor.posToOffset(pos): positions outside the document are clamped
posToOffset(d, pos) ==
    IF pos.line < 0 THEN 0
    ELSE IF pos.line >= LineCount(d) THEN Len(d)
    ELSE LineStart(d, pos.line) + Max2(0, Min2(pos.ch, LineLength(d, pos.line)))

\* editor.replaceRange(text, from, to), on offsets
replaceRange(d, text, from, to) ==
    Substring(d, 0, from) \o text \o Substring(d, to, Len(d))

-----------------------------------------------------------------------------
(* parsePrompt *)

\* the offsets (1-based indices) that contentBeforeCursor.replace(/```[^]*?```/g, ...)
\* overwrites with spaces, scanning from offset from
RECURSIVE codeBlockIndices(_, _)
codeBlockIndices(s, from) ==
    LET fence == <<Backtick, Backtick, Backtick>>
        open  == IndexOf(s, fence, from)
        close == IF open = -1 THEN -1 ELSE IndexOf(s, fence, open + 3)
    IN  IF close = -1 THEN {}
        ELSE ((open + 1)..(close + 3)) \cup codeBlockIndices(s, close + 3)

\* contentWithoutCodeBlocks
stripCodeBlocks(s) ==
    LET masked == codeBlockIndices(s, 0)
    IN  SubSeq([i \in 1..Len(s) |-> IF i \in masked THEN " " ELSE s[i]], 1, Len(s))

\* Does new RegExp(promptHead) match s at offset p?  The pattern language covered:
\* a sequence of ordinary characters, each matching itself, and ".", which
\* matches any character but a line terminator.
promptHeadRegexAt(s, promptHead, p) ==
    /\ p >= 0
    /\ p + Len(promptHead) <= Len(s)
    /\ \A k \in 1..Len(promptHead) :
           IF promptHead[k] = "." THEN s[p + k] \notin {"\n", "\r"}
           ELSE s[p + k] = promptHead[k]

\* the loop  while ((match = promptHeadRegex.exec(s)) !== null) promptStartIndex = match.index
\* for a pattern that matches no empty string: the index of the last match, or found
RECURSIVE promptHeadScan(_, _, _, _)
promptHeadScan(s, promptHead, lastIndex, found) ==
    LET hits == {p \in lastIndex..Len(s) : promptHeadRegexAt(s, promptHead, p)}
    IN  IF hits = {} THEN found
        ELSE promptHeadScan(s, promptHead, SetMin(hits) + Len(promptHead), SetMin(hits))

\* parsePrompt on buffer d with the cursor at offset cur and the selection anchor
\* at offset sel: what it throws or returns, and the buffer and cursor it leaves
parsePrompt(d, cur, sel, promptHead) ==
    LET selection == Substring(d, Min2(sel, cur), Max2(sel, cur))
    IN  IF Len(selection) > 0
        THEN LET fp == formattedPrompt(selection)
             IN  [thrown |-> FALSE, notice |-> FALSE, rawPrompt |-> selection,
                  doc |-> replaceRange(d, fp, Min2(sel, cur), Max2(sel, cur)),
                  cursor |-> Min2(sel, cur) + Len(fp)]
        ELSE LET contentBeforeCursor == Substring(d, 0, cur)
                 contentWithoutCodeBlocks == stripCodeBlocks(contentBeforeCursor)
                 promptStartIndex ==
                     promptHeadScan(contentWithoutCodeBlocks, promptHead, 0, -1)
             IN  IF promptStartIndex = -1
                 THEN [thrown |-> TRUE, notice |-> TRUE, rawPrompt |-> <<>>,
                       doc |-> d, cursor |-> cur]
                 ELSE LET rawPrompt == Trim(Substring(contentBeforeCursor,
                                                      promptStartIndex + Len(promptHead),
                                                      Len(contentBeforeCursor)))
                          fp == formattedPrompt(rawPrompt)
                          promptStartPos == offsetToPos(d, promptStartIndex)
                          promptEndPos ==
                              offsetToPos(d, posToOffset(d, promptStartPos) + Len(fp))
                          newDoc == replaceRange(d, fp, posToOffset(d, promptStartPos),
                                                 posToOffset(d, promptEndPos))
                      IN  [thrown |-> FALSE, notice |-> FALSE, rawPrompt |-> rawPrompt,
                           doc |-> newDoc,
                           cursor |-> posToOffset(newDoc,
                                          [line |-> promptStartPos.line + Len(Split(fp)),
                                           ch |-> 0])]

-----------------------------------------------------------------------------
(* insertFrontmatterProperty *)

FmOpen == <<"-", "-", "-", NL>>
FmClose == <<NL, "-", "-", "-">>

\* frontmatterRegex = /^---\n([\s\S]*?)\n---/ : the offset just after its match, or -1
frontmatterRegexEnd(editorContent) ==
    IF ~StartsAt(editorContent, FmOpen, 0) THEN -1
    ELSE LET q == IndexOf(editorContent, FmClose, Len(FmOpen))
         IN  IF q = -1 THEN -1 ELSE q + Len(FmClose)

\* frontmatter.replace(/\n---/, `\n${propertyToInsert}---`): the first "\n---" of
\* the matched text is the one replaced
insertBeforeClosing(frontmatter, propertyToInsert) ==
    LET q == IndexOf(frontmatter, FmClose, 0)
    IN  Substring(frontmatter, 0, q) \o <<NL>> \o propertyToInsert \o <<"-", "-", "-">>
            \o Substring(frontmatter, q + Len(FmClose), Len(frontmatter))

\* newContent of insertFrontmatterProperty; propertyValue is already a text
insertFrontmatterProperty(editorContent, property, propertyValue) ==
    LET propertyToInsert == property \o <<":", " ">> \o propertyValue \o <<NL>>
        end == frontmatterRegexEnd(editorContent)
    IN  IF end # -1
        THEN insertBeforeClosing(Substring(editorContent, 0, end), propertyToInsert)
                 \o Substring(editorContent, end, Len(editorContent))
        ELSE FmOpen \o propertyToInsert \o <<"-", "-", "-", NL>> \o editorContent

\* Where editor.setValue(newContent) may leave the cursor.  The editing surface
\* is not part of the repository: the start of the buffer, the old offset (clamped)
\* and the end of the buffer are the outcomes considered.
setValueCursors(oldCursor, oldContent, newContent) ==
    {0, Min2(oldCursor, Len(newContent)), Len(newContent)}

-----------------------------------------------------------------------------
(* The Metadata Block as the format defines it, and the metadata cache *)

\* the index in lines of the first line that is exactly "---", or 0
ClosingLine(lines) ==
    LET hits == {i \in 1..Len(lines) : lines[i] = <<"-", "-", "-">>}
    IN  IF hits = {} THEN 0 ELSE SetMin(hits)

RECURSIVE LinesLength(_, _)
\* the length of the first n lines, each with its line break
LinesLength(lines, n) ==
    IF n = 0 THEN 0 ELSE Len(lines[n]) + 1 + LinesLength(lines, n - 1)

\* The Metadata Block of d: an opening "---" line at offset 0, zero or more
\* lines, a closing "---" line.  entries are its lines, rest the text after the
\* closing delimiter.
metadataBlock(d) ==
    IF ~StartsAt(d, FmOpen, 0) THEN [present |-> FALSE, entries |-> <<>>, rest |-> d]
    ELSE LET lines == Split(Substring(d, Len(FmOpen), Len(d)))
             c     == ClosingLine(lines)
         IN  IF c = 0 THEN [present |-> FALSE, entries |-> <<>>, rest |-> d]
             ELSE [present |-> TRUE,
                   entries |-> SubSeq(lines, 1, c - 1),
                   rest |-> Substring(d, Len(FmOpen) + LinesLength(lines, c - 1) + 3,
                                      Len(d))]

\* the key of a "key: value" line (the text before its first colon), or <<>>
EntryKey(line) ==
    LET q == IndexOf(line, <<":">>, 0)
    IN  IF q = -1 THEN <<>> ELSE Trim(Substring(line, 0, q))

EntryValue(line) ==
    LET q == IndexOf(line, <<":">>, 0)
    IN  IF q = -1 THEN <<>> ELSE Trim(Substring(line, q + 1, Len(line)))

\* what the metadata cache makes of a key that occurs on several lines: the
\* cache is not part of the repository, so each answer of a YAML reader is possible
DupPolicies == {"last", "first", "invalid"}

\* the frontmatter object a YAML reader makes of the Metadata Block b
readFrontmatter(b, policy) ==
    LET key   == SubSeq([i \in 1..Len(b.entries) |-> EntryKey(b.entries[i])],
                        1, Len(b.entries))
        keys  == {key[i] : i \in DOMAIN key}
        at(k) == {i \in DOMAIN key : key[i] = k}
    IN  IF \/ ~b.present
           \/ <<>> \in keys
           \/ (policy = "invalid" /\ \E k \in keys : Cardinality(at(k)) > 1)
        THEN [present |-> FALSE]
        ELSE [present |-> TRUE,
              map |-> [k \in keys |->
                          EntryValue(b.entries[IF policy = "first" THEN SetMin(at(k))
                                               ELSE SetMax(at(k))])]]

\* getFileCache(noteFile)?.frontmatter for a note whose text is d
frontmatterOf(d, policy) == readFrontmatter(metadataBlock(d), policy)

\* noteFrontmatter?.[key] !== undefined
fmHas(fm, key) == fm.present /\ key \in DOMAIN fm.map

-----------------------------------------------------------------------------
(* Settings (src/settings.ts) and the values the other variables start with *)

\* Numbers are held as the text `${value}` renders and the YAML reader reads back.
DEFAULT_SETTINGS ==
    [openAIChatModel |-> <<"g", "p", "t", "-", "4", "o">>,
     openAIMaxTokens |-> <<"1", "0", "0", "0">>,
     openAIChatFrequencyPenalty |-> <<"0">>,
     openAIChatN |-> <<"1">>,
     openAIChatPresencePenalty |-> <<"0">>,
     openAIChatTemperature |-> <<"0", ".", "7">>,
     openAIChatTopP |-> <<"1">>,
     promptHead |-> <<"/", "/">>,
     maxPreviousMessages |-> 10]

\* a setting that is undefined
Undefined == <<"undefined">>

NoRequest == [kind |-> "none"]
NoOutcome == [op |-> "none"]
NoHistory == [op |-> "none"]

\* a wall-clock reading: 2024-03-05 09:07
SomeDate == [year |-> 2024, month |-> 3, day |-> 5, hour |-> 9, minute |-> 7]

-----------------------------------------------------------------------------
(* prepareOpenAIChatCompletionRequest *)

KeyPrefix ==
    <<"a", "i", "s", "s", "i", "s", "t", "_", "o", "p", "e", "n", "a", "i", "_",
      "c", "h", "a", "t", "_">>
KeyModel == KeyPrefix \o <<"m", "o", "d", "e", "l">>
KeyMaxTokens == KeyPrefix \o <<"m", "a", "x", "_", "t", "o", "k", "e", "n", "s">>
KeyTemperature == KeyPrefix \o <<"t", "e", "m", "p", "e", "r", "a", "t", "u", "r", "e">>
KeySystemMessage ==
    KeyPrefix \o <<"s", "y", "s", "t", "e", "m", "_", "m", "e", "s", "s", "a", "g", "e">>
KeyFrequencyPenalty ==
    KeyPrefix \o <<"f", "r", "e", "q", "u", "e", "n", "c", "y", "_", "p", "e", "n", "a", "l", "t", "y">>
KeyN == KeyPrefix \o <<"n">>
KeyPresencePenalty ==
    KeyPrefix \o <<"p", "r", "e", "s", "e", "n", "c", "e", "_", "p", "e", "n", "a", "l", "t", "y">>
KeyTopP == KeyPrefix \o <<"t", "o", "p", "_", "p">>
KeyCompletionTokens ==
    KeyPrefix \o <<"c", "o", "m", "p", "l", "e", "t", "i", "o", "n", "_", "t", "o", "k", "e", "n", "s">>
KeyPromptTokens ==
    KeyPrefix \o <<"p", "r", "o", "m", "p", "t", "_", "t", "o", "k", "e", "n", "s">>
KeyTotalTokens ==
    KeyPrefix \o <<"t", "o", "t", "a", "l", "_", "t", "o", "k", "e", "n", "s">>

\* the chain below with a plausible slip: the stored setting is looked at first
resolveSettingFirst(d, fm, key, stored, default) ==
    IF stored # Undefined
    THEN [value |-> stored,
          doc |-> IF fmHas(fm, key) THEN d ELSE insertFrontmatterProperty(d, key, stored)]
    ELSE IF fmHas(fm, key) THEN [value |-> fm.map[key], doc |-> d]
    ELSE [value |-> default, doc |-> insertFrontmatterProperty(d, key, default)]

\* the chain below with a plausible slip: the fallback is not written back
resolveNoWrite(d, fm, key, stored, default) ==
    IF fmHas(fm, key) THEN [value |-> fm.map[key], doc |-> d]
    ELSE IF stored # Undefined THEN [value |-> stored, doc |-> d]
    ELSE [value |-> default, doc |-> d]

\* one of the if / else-if / else chains of lines 217-255: the value resolved for
\* key and the buffer after the write-back, if any
resolveAndWrite(d, fm, key, stored, default) ==
    IF fmHas(fm, key) THEN [value |-> fm.map[key], doc |-> d]
    ELSE IF stored # Undefined
         THEN [value |-> stored, doc |-> insertFrontmatterProperty(d, key, stored)]
         ELSE [value |-> default, doc |-> insertFrontmatterProperty(d, key, default)]

\* one of the if / else chains of lines 259-282: no write-back
resolveOnly(fm, key, default) == IF fmHas(fm, key) THEN fm.map[key] ELSE default

\* prepareOpenAIChatCompletionRequest with the buffer d, the cached frontmatter fm
\* and the settings st: the request parameters and the buffer it leaves
prepareOpenAIChatCompletionRequest(d, fm, st) ==
    LET model == resolveAndWrite(d, fm, KeyModel, st.openAIChatModel,
                                 DEFAULT_SETTINGS.openAIChatModel)
        max_tokens == resolveAndWrite(model.doc, fm, KeyMaxTokens, st.openAIMaxTokens,
                                      DEFAULT_SETTINGS.openAIMaxTokens)
        temperature == resolveAndWrite(max_tokens.doc, fm, KeyTemperature,
                                       st.openAIChatTemperature,
                                       DEFAULT_SETTINGS.openAIChatTemperature)
        system_message == resolveAndWrite(temperature.doc, fm, KeySystemMessage,
                                          Undefined, OPEN_AI_CHAT_SYSTEM_MESSAGE)
    IN  [params |->
             [model |-> model.value,
              frequency_penalty |-> resolveOnly(fm, KeyFrequencyPenalty,
                                        DEFAULT_SETTINGS.openAIChatFrequencyPenalty),
              max_tokens |-> max_tokens.value,
              n |-> resolveOnly(fm, KeyN, DEFAULT_SETTINGS.openAIChatN),
              presence_penalty |-> resolveOnly(fm, KeyPresencePenalty,
                                       DEFAULT_SETTINGS.openAIChatPresencePenalty),
              temperature |-> temperature.value,
              top_p |-> resolveOnly(fm, KeyTopP, DEFAULT_SETTINGS.openAIChatTopP),
              system_message |-> system_message.value],
         doc |-> system_message.doc]

-----------------------------------------------------------------------------
(* insertResponse, after its request has resolved *)

IsDigits(s) ==
    Len(s) > 0 /\ \A i \in 1..Len(s) : s[i] \in {"0", "1", "2", "3", "4", "5", "6", "7", "8", "9"}

DigitValue(c) ==
    CHOOSE d \in 0..9 : Digit(d) = c

\* the number a text of digits denotes
RECURSIVE StringToNum(_)
StringToNum(s) ==
    IF Len(s) = 0 THEN 0
    ELSE 10 * StringToNum(SubSeq(s, 1, Len(s) - 1)) + DigitValue(s[Len(s)])

\* updateProperty's value:
\*   noteFrontmatter && noteFrontmatter[prop] ? noteFrontmatter[prop] + tokens : tokens
updatePropertyValue(fm, prop, tokens) ==
    IF fmHas(fm, prop) /\ fm.map[prop] # <<>> /\ fm.map[prop] # <<"0">>
    THEN IF IsDigits(fm.map[prop])
         THEN NumToString(StringToNum(fm.map[prop]) + tokens)
         ELSE fm.map[prop] \o NumToString(tokens)
    ELSE NumToString(tokens)

\* the three updateProperty calls of lines 450-452 on buffer d
updateUsage(d, fm, usage) ==
    LET d1 == insertFrontmatterProperty(d, KeyCompletionTokens,
                  updatePropertyValue(fm, KeyCompletionTokens, usage.completion_tokens))
        d2 == insertFrontmatterProperty(d1, KeyPromptTokens,
                  updatePropertyValue(fm, KeyPromptTokens, usage.prompt_tokens))
    IN  insertFrontmatterProperty(d2, KeyTotalTokens,
            updatePropertyValue(fm, KeyTotalTokens, usage.total_tokens))

-----------------------------------------------------------------------------
(* Documents that hold a list of encoded turns *)

Roles == {RoleSystem, RoleUser, RoleAssistant}

\* the content of the i-th turn of a generated document
TurnContent(i) == <<"m">> \o NumToString(i)

\* a system turn typed by the user in the marker syntax (the plugin writes none)
systemBlock(content) ==
    <<NL>> \o MARKER_START
        \o <<";", " ", "r", "o", "l", "e", ":", "s", "y", "s", "t", "e", "m", ";", " ">>
        \o MARKER_END \o <<" ">> \o content

TurnBlock(role, i) ==
    IF role = RoleUser THEN formattedPrompt(TurnContent(i))
    ELSE IF role = RoleAssistant THEN replyContent(TurnContent(i))
    ELSE systemBlock(TurnContent(i))

RECURSIVE TurnDocFrom(_, _)
TurnDocFrom(roles, i) ==
    IF i > Len(roles) THEN <<>>
    ELSE TurnBlock(roles[i], i) \o TurnDocFrom(roles, i + 1)

TurnDoc(roles) == TurnDocFrom(roles, 1)

\* 12 turns: one system turn, then 11 turns alternating user and assistant
ScenarioRoles ==
    [i \in 1..12 |-> IF i = 1 THEN RoleSystem
                     ELSE IF i % 2 = 0 THEN RoleUser ELSE RoleAssistant]

RoleLists == UNION {[1..n -> Roles] : n \in 0..MaxTurns}

-----------------------------------------------------------------------------
(* SpecWindow: parseMessages applied to documents of encoded turns *)

InitWindow ==
    /\ now = SomeDate
    /\ \E roles \in RoleLists \cup {ScenarioRoles} : doc = TurnDoc(roles)
    /\ cursor = Len(doc)
    /\ selFrom = cursor
    /\ \E m \in (-1)..(MaxTurns + 1) :
           settings = [DEFAULT_SETTINGS EXCEPT !.maxPreviousMessages = m]
    /\ cache = [present |-> FALSE]
    /\ pc = "idle"
    /\ req = NoRequest
    /\ out = NoOutcome
    /\ hist = NoHistory
    /\ ncmd = 0

\* the Chat command's call: parseMessages(editor.getValue(), maxPreviousMessages)
CallParseMessages ==
    /\ out.op = "none"
    /\ out' = [op |-> "parseMessages",
               max |-> settings.maxPreviousMessages,
               messages |-> parseMessages(doc, settings.maxPreviousMessages)]
    /\ UNCHANGED <<doc, cursor, selFrom, settings, cache, now, pc, req, hist, ncmd>>

NextWindow == CallParseMessages

SpecWindow == InitWindow /\ [][NextWindow]_vars

\* the last k elements of a, none when k <= 0
MostRecent(a, k) == IF k <= 0 THEN <<>> ELSE SubSeq(a, Max2(1, Len(a) - k + 1), Len(a))

Turn(role, i) == [role |-> role, content |-> TurnContent(i)]

\* C1: with S system turns and a maximum M >= S, parseMessages returns the S
\* system turns and the most recent min(M - S, N) of the N non-system turns, each
\* group in document order; the 12-turn document with M = 5 yields the system
\* turn and the last 4 non-system turns.
C1_WindowKeepsSystemAndMostRecent ==
    out.op = "parseMessages" =>
        LET all == decodeMessages(doc, 0)
            sys == SelectSeq(all, IsSystem)
            non == SelectSeq(all, IsNotSystem)
            k   == Min2(out.max - Len(sys), Len(non))
        IN  out.max >= Len(sys) =>
                /\ SelectSeq(out.messages, IsSystem) = sys
                /\ SelectSeq(out.messages, IsNotSystem) = MostRecent(non, k)
                /\ Len(out.messages) = Len(sys) + k
                /\ (Len(all) = 12 /\ out.max = 5) =>
                       out.messages = <<Turn(RoleSystem, 1), Turn(RoleAssistant, 9),
                                        Turn(RoleUser, 10), Turn(RoleAssistant, 11),
                                        Turn(RoleUser, 12)>>

C1_Witness ==
    /\ out.op = "parseMessages"
    /\ out.max = 5
    /\ Len(out.messages) = 5
    /\ Len(decodeMessages(doc, 0)) = 12

-----------------------------------------------------------------------------
(* SpecPrompt: parsePrompt with an empty selection, on generated documents *)

Pieces == {<<"/", "/">>, <<"a">>, <<Backtick, Backtick, Backtick>>, <<NL>>, <<".">>, <<" ">>}

RECURSIVE Concat(_)
Concat(seqs) == IF Len(seqs) = 0 THEN <<>> ELSE seqs[1] \o Concat(Tail(seqs))

PieceDocs == {Concat(ps) : ps \in UNION {[1..n -> Pieces] : n \in 0..MaxPieces}}

\* a prompt typed above an assistant turn encoded earlier
PromptAboveTurn == <<"/", "/", "a", NL>> \o replyContent(<<"o", "l", "d">>)

\* the delimiters tried: the default, and one with a regular-expression character
PromptHeads == {<<"/", "/">>, <<".">>}

InitPrompt ==
    /\ now = SomeDate
    /\ doc \in PieceDocs \cup {PromptAboveTurn}
    /\ cursor \in 0..Len(doc)
    /\ selFrom = cursor
    /\ \E h \in PromptHeads : settings = [DEFAULT_SETTINGS EXCEPT !.promptHead = h]
    /\ cache = [present |-> FALSE]
    /\ pc = "idle"
    /\ req = NoRequest
    /\ out = NoOutcome
    /\ hist = NoHistory
    /\ ncmd = 0

\* one call of parsePrompt(editor)
CallParsePrompt ==
    /\ out.op = "none"
    /\ LET r == parsePrompt(doc, cursor, selFrom, settings.promptHead)
       IN  /\ doc' = r.doc
           /\ cursor' = r.cursor
           /\ selFrom' = r.cursor
           /\ out' = [op |-> "parsePrompt", thrown |-> r.thrown, notice |-> r.notice,
                      rawPrompt |-> r.rawPrompt]
    /\ hist' = [op |-> "parsePrompt", doc |-> doc, cursor |-> cursor, selFrom |-> selFrom]
    /\ UNCHANGED <<settings, cache, now, pc, req, ncmd>>

NextPrompt == CallParsePrompt

SpecPrompt == InitPrompt /\ [][NextPrompt]_vars

\* C4 as stated: in delimiter mode parsePrompt replaces exactly the span from the
\* delimiter to the cursor by the encoded user turn; all text before the delimiter
\* and all text after the cursor is unchanged.
C4_ReplacesExactlyDelimiterToCursor ==
    (out.op = "parsePrompt" /\ ~out.thrown /\ hist.selFrom = hist.cursor) =>
        \E start \in 0..hist.cursor :
            doc = Substring(hist.doc, 0, start) \o formattedPrompt(out.rawPrompt)
                      \o Substring(hist.doc, hist.cursor, Len(hist.doc))

\* the reference extractor of C6: the delimiter as a literal string, occurrences
\* inside a fenced region of the text before the cursor ignored, the last one taken
referenceExtract(d, cur, promptHead) ==
    LET text   == Substring(d, 0, cur)
        fenced == codeBlockIndices(text, 0)
        occ    == {p \in 0..(Len(text) - Len(promptHead)) :
                      /\ StartsAt(text, promptHead, p)
                      /\ \A k \in (p + 1)..(p + Len(promptHead)) : k \notin fenced}
    IN  IF occ = {} THEN [thrown |-> TRUE, rawPrompt |-> <<>>]
        ELSE [thrown |-> FALSE,
              rawPrompt |-> Trim(Substring(text, SetMax(occ) + Len(promptHead), Len(text)))]

\* C6 as stated: with an empty selection parsePrompt's outcome (the prompt it
\* returns, or MissingPromptDelimiter) is that of the reference extractor.
C6_OutcomeEqualsReferenceExtractor ==
    (out.op = "parsePrompt" /\ hist.selFrom = hist.cursor) =>
        LET ref == referenceExtract(hist.doc, hist.cursor, settings.promptHead)
        IN  /\ out.thrown = ref.thrown
            /\ out.rawPrompt = ref.rawPrompt

-----------------------------------------------------------------------------
(* SpecCodec: a turn is encoded into an empty document, which is then decoded *)

ContentChars == {"a", ">", NL, " "}
Contents == UNION {[1..n -> ContentChars] : n \in 0..MaxContent}

\* how the turn gets encoded: a selected prompt, a prompt after the delimiter, a reply
Encodings == {"selection", "delimiter", "reply"}

InitCodec ==
    /\ now = SomeDate
    /\ settings = DEFAULT_SETTINGS
    /\ \E content \in Contents, via \in Encodings :
           /\ hist = [op |-> "encode", via |-> via, content |-> content,
                      role |-> IF via = "reply" THEN RoleAssistant ELSE RoleUser]
           /\ doc = IF via = "selection" THEN content
                    ELSE IF via = "delimiter" THEN settings.promptHead \o content
                    ELSE <<>>
           /\ cursor = Len(doc)
           /\ selFrom = IF via = "selection" THEN 0 ELSE cursor
    /\ cache = [present |-> FALSE]
    /\ pc = "raw"
    /\ req = NoRequest
    /\ out = NoOutcome
    /\ ncmd = 0

\* parsePrompt encodes the user turn in place
EncodeUser ==
    /\ pc = "raw"
    /\ hist.via # "reply"
    /\ LET r == parsePrompt(doc, cursor, selFrom, settings.promptHead)
       IN  /\ doc' = r.doc
           /\ cursor' = r.cursor
           /\ selFrom' = r.cursor
           /\ pc' = IF r.thrown THEN "failed" ELSE "encoded"
    /\ UNCHANGED <<settings, cache, now, req, out, hist, ncmd>>

\* insertResponse's editor.replaceRange(replyContent, editor.getCursor())
EncodeAssistant ==
    /\ pc = "raw"
    /\ hist.via = "reply"
    /\ doc' = replaceRange(doc, replyContent(hist.content), cursor, cursor)
    /\ cursor' = cursor + Len(replyContent(hist.content))
    /\ selFrom' = cursor'
    /\ pc' = "encoded"
    /\ UNCHANGED <<settings, cache, now, req, out, hist, ncmd>>

\* parseMessages(editor.getValue(), maxPreviousMessages)
Decode ==
    /\ pc = "encoded"
    /\ out' = [op |-> "parseMessages",
               max |-> settings.maxPreviousMessages,
               messages |-> parseMessages(doc, settings.maxPreviousMessages)]
    /\ pc' = "decoded"
    /\ UNCHANGED <<doc, cursor, selFrom, settings, cache, now, req, hist, ncmd>>

NextCodec == EncodeUser \/ EncodeAssistant \/ Decode

SpecCodec == InitCodec /\ [][NextCodec]_vars

\* C3 as stated: decoding a document that holds only the encoded block yields
\* exactly one turn, with the original role and the trimmed original content.
C3_RoundTrip ==
    pc = "decoded" =>
        out.messages = <<[role |-> hist.role, content |-> Trim(hist.content)]>>

-----------------------------------------------------------------------------
(* SpecFrontmatter: insertFrontmatterProperty called on generated documents *)

FmPieces == {FmOpen, <<"-", "-", "-">>, <<"a", ":", " ", "1", NL>>, <<"x", NL>>}

FmDocs == {Concat(ps) : ps \in UNION {[1..n -> FmPieces] : n \in 0..MaxPieces}}

\* the (property, value) pairs the calls are made with
FmProperties == {<<(<<"k">>), (<<"v">>)>>, <<(<<"n">>), (<<"6">>)>>}

InitFrontmatter ==
    /\ now = SomeDate
    /\ settings = DEFAULT_SETTINGS
    /\ doc \in FmDocs
    /\ cursor = Len(doc)
    /\ selFrom = cursor
    /\ cache = [present |-> FALSE]
    /\ pc = "idle"
    /\ req = NoRequest
    /\ out = NoOutcome
    /\ hist = [op |-> "upsert", doc |-> doc, written |-> <<>>]
    /\ ncmd = 0

\* one call of insertFrontmatterProperty(editor, property, propertyValue)
CallInsertFrontmatterProperty ==
    /\ ncmd < MaxCommands
    /\ \E pv \in FmProperties :
           /\ doc' = insertFrontmatterProperty(doc, pv[1], pv[2])
           /\ hist' = [hist EXCEPT !.written = @ \o <<(pv[1] \o <<":", " ">> \o pv[2])>>]
    /\ cursor' \in setValueCursors(cursor, doc, doc')
    /\ selFrom' = cursor'
    /\ ncmd' = ncmd + 1
    /\ UNCHANGED <<settings, cache, now, pc, req, out>>

NextFrontmatter == CallInsertFrontmatterProperty

SpecFrontmatter == InitFrontmatter /\ [][NextFrontmatter]_vars

\* C8 as stated: after any sequence of upserts the document has one Metadata Block,
\* at offset 0; it holds the lines of the block the document started with (possibly
\* none) followed by the lines written, and the text after it is the text that
\* followed the original block (the whole original text when there was no block):
\* no second block is created.
C8_OneBlockAtOffsetZero ==
    Len(hist.written) > 0 =>
        LET b0 == metadataBlock(hist.doc)
            b  == metadataBlock(doc)
        IN  /\ b.present
            /\ b.entries = b0.entries \o hist.written
            /\ b.rest = IF b0.present THEN b0.rest ELSE <<NL>> \o hist.doc

-----------------------------------------------------------------------------
(* Spec: the Prompt and Chat commands on one note *)

\* a usage counter as the Metadata Block b states it: the value on the last line
\* that carries the key, 0 when there is none
StoredCounter(b, key) ==
    LET at == {i \in 1..Len(b.entries) : EntryKey(b.entries[i]) = key}
    IN  IF at = {} \/ ~IsDigits(EntryValue(b.entries[SetMax(at)])) THEN 0
        ELSE StringToNum(EntryValue(b.entries[SetMax(at)]))

\* the three usage counters of the note d
StoredUsage(d) ==
    LET b == metadataBlock(d)
    IN  [completion_tokens |-> StoredCounter(b, KeyCompletionTokens),
         prompt_tokens |-> StoredCounter(b, KeyPromptTokens),
         total_tokens |-> StoredCounter(b, KeyTotalTokens)]

ZeroUsage == [completion_tokens |-> 0, prompt_tokens |-> 0, total_tokens |-> 0]

\* the usage a request reports, and the reply it carries
Usages == {[completion_tokens |-> 1, prompt_tokens |-> 5, total_tokens |-> 6]}
Replies == {<<"4">>}

\* a Metadata Block that carries the four fields the resolver writes back
ConfigBlock ==
    insertFrontmatterProperty(
        insertFrontmatterProperty(
            insertFrontmatterProperty(
                insertFrontmatterProperty(<<>>, KeyModel, DEFAULT_SETTINGS.openAIChatModel),
                KeyMaxTokens, DEFAULT_SETTINGS.openAIMaxTokens),
            KeyTemperature, DEFAULT_SETTINGS.openAIChatTemperature),
        KeySystemMessage, OPEN_AI_CHAT_SYSTEM_MESSAGE)

\* the notes a behaviour starts with: text and cursor
StartNotes ==
    {[doc |-> fm \o body.text, cursor |-> Len(fm) + body.cursor] :
        fm \in {<<>>, ConfigBlock},
        body \in {[text |-> <<"/", "/", "h", "i">>, cursor |-> 4],
                  [text |-> <<"h", "i">>, cursor |-> 2],
                  [text |-> <<"/", "/", "h", "i", NL, "r", "e", "s", "t">>, cursor |-> 4]}}

\* what a command records of its own run
NewHistory(d, cur, fm, sum, done) ==
    [op |-> "command", docBefore |-> d, cursorBefore |-> cur, cacheBefore |-> fm,
     storedBefore |-> StoredUsage(d), docAfterPrepare |-> d, cursorAfterPrepare |-> cur,
     docAfterPrompt |-> d, rawPrompt |-> <<>>,
     docAtResolve |-> <<>>, cursorAtResolve |-> 0, reply |-> <<>>,
     docAfterReply |-> <<>>, cursorAfterReply |-> 0,
     usage |-> ZeroUsage, sumUsage |-> sum, completed |-> done]

Init ==
    /\ now = SomeDate
    /\ settings = DEFAULT_SETTINGS
    /\ \E note \in StartNotes : doc = note.doc /\ cursor = note.cursor
    /\ selFrom = cursor
    /\ cache = frontmatterOf(doc, "last")
    /\ pc = "idle"
    /\ req = NoRequest
    /\ out = NoOutcome
    /\ hist = NewHistory(doc, cursor, cache, StoredUsage(doc), 0)
    /\ ncmd = 0

\* requestOpenAIChatCompletion, up to its fetch: the conversation that is sent
requestConversation(requestParams, conversation) ==
    IF requestParams.system_message # <<>>
    THEN <<[role |-> RoleSystem, content |-> requestParams.system_message]>> \o conversation
    ELSE conversation

\* The editorCallback of the Prompt command (kind = "Prompt") or the Chat command
\* (kind = "Chat"), up to the await of the request, or to the throw of parsePrompt.
\* The cursor after the write-backs of the resolver is one setValue may leave.
StartCommand(kind) ==
    /\ pc = "idle"
    /\ ncmd < MaxCommands
    /\ ncmd' = ncmd + 1
    /\ \E p \in {prepareOpenAIChatCompletionRequest(doc, cache, settings)} :
       \E cur \in (IF p.doc = doc THEN {cursor}
                   ELSE setValueCursors(cursor, doc, p.doc)) :
       \E r \in {parsePrompt(p.doc, cur, IF p.doc = doc THEN selFrom ELSE cur,
                             settings.promptHead)} :
           /\ doc' = r.doc
           /\ cursor' = r.cursor
           /\ selFrom' = r.cursor
           /\ hist' = [NewHistory(doc, cursor, cache, hist.sumUsage, hist.completed)
                           EXCEPT !.docAfterPrepare = p.doc, !.cursorAfterPrepare = cur,
                                  !.docAfterPrompt = r.doc, !.rawPrompt = r.rawPrompt]
           /\ out' = [op |-> "command", thrown |-> r.thrown,
                      notice |-> r.notice, replied |-> FALSE,
                      failed |-> FALSE, propagated |-> r.thrown]
           /\ IF r.thrown
              THEN pc' = "idle" /\ req' = NoRequest
              ELSE /\ pc' = "pending"
                   /\ req' = [kind |-> kind,
                              cursorAfterPrompt |-> offsetToPos(r.doc, r.cursor),
                              requestParams |-> p.params,
                              conversation |->
                                  requestConversation(p.params,
                                      IF kind = "Prompt"
                                      THEN <<[role |-> RoleUser, content |-> r.rawPrompt]>>
                                      ELSE parseMessages(r.doc,
                                                         settings.maxPreviousMessages))]
    /\ UNCHANGED <<settings, cache, now>>

PromptCommand == StartCommand("Prompt")

ChatCommand == StartCommand("Chat")

\* insertResponse after the request resolved with a reply and its usage
RequestResolves ==
    /\ pc = "pending"
    /\ \E content \in Replies, usage \in Usages :
           LET reply == replyContent(content)
               d1    == replaceRange(doc, reply, cursor, cursor)
               lines == Len(Split(reply))
               c1    == posToOffset(d1, [line |-> req.cursorAfterPrompt.line + lines,
                                         ch |-> 0])
               d2    == updateUsage(d1, cache, usage)
           IN  /\ doc' = d2
               /\ cursor' \in setValueCursors(c1, d1, d2)
               /\ hist' = [hist EXCEPT !.docAtResolve = doc, !.cursorAtResolve = cursor,
                                       !.reply = reply, !.docAfterReply = d1,
                                       !.cursorAfterReply = c1, !.usage = usage,
                                       !.sumUsage =
                                           [k \in DOMAIN @ |-> @[k] + usage[k]],
                                       !.completed = @ + 1]
    /\ selFrom' = cursor'
    /\ out' = [out EXCEPT !.replied = TRUE]
    /\ pc' = "idle"
    /\ req' = NoRequest
    /\ UNCHANGED <<settings, cache, now, ncmd>>

\* insertResponse after the request resolved with no choice: nothing is written
RequestResolvesEmpty ==
    /\ pc = "pending"
    /\ pc' = "idle"
    /\ req' = NoRequest
    /\ UNCHANGED <<doc, cursor, selFrom, settings, cache, now, out, hist, ncmd>>

\* insertResponse with its catch clause taken away: the rejection leaves the
\* callback
RequestFailsUncaught ==
    /\ pc = "pending"
    /\ pc' = "idle"
    /\ req' = NoRequest
    /\ out' = [out EXCEPT !.failed = TRUE, !.propagated = TRUE]
    /\ UNCHANGED <<doc, cursor, selFrom, settings, cache, now, hist, ncmd>>

\* insertResponse after the request rejected or answered with a non-success
\* status: requestOpenAIChatCompletion rethrows, the catch clause of insertResponse
\* shows the notice
RequestFails ==
    /\ pc = "pending"
    /\ pc' = "idle"
    /\ req' = NoRequest
    /\ out' = [out EXCEPT !.notice = TRUE, !.failed = TRUE]
    /\ UNCHANGED <<doc, cursor, selFrom, settings, cache, now, hist, ncmd>>

\* the metadata cache re-reads the note; a key on several lines is read as one
\* of the DupPolicies has it
CacheRefresh ==
    /\ \E b \in {metadataBlock(doc)} :
       \E policy \in DupPolicies :
       \E fm \in {readFrontmatter(b, policy)} :
           /\ cache # fm
           /\ cache' = fm
    /\ UNCHANGED <<doc, cursor, selFrom, settings, now, pc, req, out, hist, ncmd>>

\* the user moves the cursor while the request is pending
UserMovesCursor ==
    /\ pc = "pending"
    /\ \E c \in {0, Len(doc)} : c # cursor /\ cursor' = c
    /\ selFrom' = cursor'
    /\ UNCHANGED <<doc, settings, cache, now, pc, req, out, hist, ncmd>>

\* the user types the next prompt at the end of the note
UserTypesPrompt ==
    /\ pc = "idle"
    /\ ncmd > 0 /\ ncmd < MaxCommands
    /\ out.op = "command" /\ out.replied
    /\ doc' = doc \o <<NL>> \o settings.promptHead \o <<"q">>
    /\ cursor' = Len(doc')
    /\ selFrom' = cursor'
    /\ out' = [out EXCEPT !.replied = FALSE]
    /\ UNCHANGED <<settings, cache, now, pc, req, hist, ncmd>>

Next ==
    \/ PromptCommand
    \/ ChatCommand
    \/ RequestResolves
    \/ RequestResolvesEmpty
    \/ RequestFails
    \/ CacheRefresh
    \/ UserMovesCursor
    \/ UserTypesPrompt

Spec == Init /\ [][Next]_vars

-----------------------------------------------------------------------------
(* Claims about the commands *)

\* the case of C5 as stated: the last command was invoked with an empty selection
\* and no delimiter outside fenced code regions before the cursor
NoDelimiterAtInvocation ==
    /\ out.op = "command"
    /\ referenceExtract(hist.docBefore, hist.cursorBefore, settings.promptHead).thrown

\* C5 as stated: a command invoked with an empty selection and no delimiter
\* before the cursor aborts with a notice and leaves the document text identical
\* to the text before the command.
C5_AbortLeavesTextUnchanged ==
    NoDelimiterAtInvocation =>
        /\ out.thrown
        /\ out.notice
        /\ doc = hist.docBefore

\* the number of the line (0-based) that holds offset o of d
LineOf(d, o) == Cardinality({i \in 1..Len(d) : d[i] = NL /\ i <= o})

\* C7 as stated: the reply is inserted at the cursor that is current when the
\* request resolves, and afterwards the cursor is on the line following the
\* inserted assistant block (at the end of the text when no line follows),
\* wherever the cursor was at resolution time.
C7_ReplyAtCurrentCursorThenNextLine ==
    (hist.op = "command" /\ hist.reply # <<>>) =>
        LET at       == hist.cursorAtResolve
            blockEnd == at + Len(hist.reply)
        IN  /\ hist.docAfterReply =
                   Substring(hist.docAtResolve, 0, at) \o hist.reply
                       \o Substring(hist.docAtResolve, at, Len(hist.docAtResolve))
            /\ hist.cursorAfterReply =
                   posToOffset(hist.docAfterReply,
                               [line |-> LineOf(hist.docAfterReply, blockEnd) + 1,
                                ch |-> 0])

\* C9 as stated: after any sequence of command invocations every property name
\* occurs on at most one line of the Metadata Block.
C9_NoDuplicateKeys ==
    LET entries == metadataBlock(doc).entries
        key     == SubSeq([i \in 1..Len(entries) |-> EntryKey(entries[i])],
                          1, Len(entries))
    IN  \A i, j \in 1..Len(entries) : key[i] = key[j] => i = j

\* C10 as stated: after each successful command the value stored for each of the
\* three token properties is the value stored before the command plus the count
\* the request returned, and the latest stored total is the sum of the totals
\* returned so far.
C10_UsageAccumulates ==
    (hist.op = "command" /\ hist.reply # <<>>) =>
        LET stored == StoredUsage(doc)
        IN  /\ \A k \in DOMAIN stored : stored[k] = hist.storedBefore[k] + hist.usage[k]
            /\ stored.total_tokens = hist.sumUsage.total_tokens

\* the offsets at which an assistant block starts in d
AssistantBlocks(d) == Occurrences(d, replyContent(<<>>), 0)

\* the lines of the Metadata Block of d that carry a usage counter
UsageLines(d) ==
    SelectSeq(metadataBlock(d).entries,
              LAMBDA line : EntryKey(line) \in {KeyCompletionTokens, KeyPromptTokens,
                                                KeyTotalTokens})

\* C14: when the request rejects or answers with a non-success status, a notice is
\* shown and the error does not leave the command callback; no assistant block is
\* inserted and no usage counter is written; the encoded user turn and the
\* metadata lines written earlier in the invocation are still in the document,
\* which is the document as the prompt capture left it.
C14_FailureKeepsEarlierWrites ==
    (out.op = "command" /\ out.failed) =>
        /\ out.notice
        /\ ~out.propagated
        /\ ~out.replied
        /\ doc = hist.docAfterPrompt
        /\ AssistantBlocks(doc) = AssistantBlocks(hist.docAfterPrompt)
        /\ Cardinality(AssistantBlocks(doc)) = Cardinality(AssistantBlocks(hist.docBefore))
        /\ UsageLines(doc) = UsageLines(hist.docBefore)
        /\ IndexOf(doc, formattedPrompt(hist.rawPrompt), 0) # -1
        /\ \E b0 \in {metadataBlock(hist.docAfterPrepare)} : \E b \in {metadataBlock(doc)} :
               b.entries = b0.entries

\* a failed request of an invocation that had written metadata lines and the
\* encoded user turn
C14_Witness ==
    /\ out.op = "command" /\ out.failed /\ out.notice
    /\ pc = "idle"
    /\ hist.docAfterPrepare # hist.docBefore
    /\ hist.docAfterPrompt # hist.docAfterPrepare
    /\ doc = hist.docAfterPrompt
    /\ Len(metadataBlock(doc).entries) > Len(metadataBlock(hist.docBefore).entries)

-----------------------------------------------------------------------------
(* SpecResolve: prepareOpenAIChatCompletionRequest on notes whose Metadata Block
   has some of the configuration keys, under settings that have some of the
   fields *)

\* the value a configuration key has in a note that carries it
MetaValue(key) ==
    IF key = KeyModel THEN <<"x">>
    ELSE IF key = KeyMaxTokens THEN <<"7">>
    ELSE IF key = KeyTemperature THEN <<"1">>
    ELSE <<"s">>

\* the keys a generated note may carry, in the order of their lines
MetaKeys == <<KeyModel, KeyMaxTokens, KeyTemperature, KeySystemMessage>>

RECURSIVE MetaLines(_, _)
\* the key: value lines of the keys of MetaKeys (from the i-th on) that are in has
MetaLines(has, i) ==
    IF i > Len(MetaKeys) THEN <<>>
    ELSE (IF MetaKeys[i] \in has
          THEN MetaKeys[i] \o <<":", " ">> \o MetaValue(MetaKeys[i]) \o <<NL>>
          ELSE <<>>) \o MetaLines(has, i + 1)

\* a note with a Metadata Block that has the keys of has (no block when has = {})
MetaNote(has) ==
    (IF has = {} THEN <<>> ELSE FmOpen \o MetaLines(has, 1) \o <<"-", "-", "-", NL>>)
        \o <<"h", "i">>

MetaNotes == {MetaNote(has) : has \in SUBSET {MetaKeys[i] : i \in 1..Len(MetaKeys)}}

\* settings with each of the three stored fields either set (to a value that is
\* not the compiled default) or missing
StoredSettings ==
    {[DEFAULT_SETTINGS EXCEPT !.openAIChatModel = m, !.openAIMaxTokens = t,
                              !.openAIChatTemperature = c] :
        m \in {<<"m">>, Undefined}, t \in {<<"5">>, Undefined}, c \in {<<"0">>, Undefined}}

InitResolve ==
    /\ now = SomeDate
    /\ settings \in StoredSettings
    /\ doc \in MetaNotes
    /\ cursor = Len(doc)
    /\ selFrom = cursor
    /\ cache \in {frontmatterOf(doc, "last"), [present |-> FALSE]}
    /\ pc = "idle"
    /\ req = NoRequest
    /\ out = NoOutcome
    /\ hist = [op |-> "prepare", doc |-> doc, cache |-> cache]
    /\ ncmd = 0

\* one call of prepareOpenAIChatCompletionRequest(editor)
CallPrepare ==
    /\ ncmd < MaxCommands
    /\ ncmd' = ncmd + 1
    /\ \E p \in {prepareOpenAIChatCompletionRequest(doc, cache, settings)} :
           /\ doc' = p.doc
           /\ out' = [op |-> "prepare", params |-> p.params]
           /\ cursor' \in (IF p.doc = doc THEN {cursor}
                           ELSE setValueCursors(cursor, doc, p.doc))
    /\ selFrom' = cursor'
    /\ hist' = [op |-> "prepare", doc |-> doc, cache |-> cache]
    /\ UNCHANGED <<settings, cache, now, pc, req>>

NextResolve ==
    \/ CallPrepare
    \/ CacheRefresh

SpecResolve == InitResolve /\ [][NextResolve]_vars

\* metadata value, else stored setting, else compiled default
Precedence(fm, key, stored, default) ==
    IF fmHas(fm, key) THEN fm.map[key]
    ELSE IF stored # Undefined THEN stored
    ELSE default

\* C11: for each of model, max tokens and temperature the resolved value is the
\* metadata value when the metadata has the key, otherwise the stored setting when
\* it is defined, otherwise the compiled default; and every key: value line that
\* was in the Metadata Block before the resolution is still there, unchanged and at
\* its place.
C11_PrecedenceAndLinesKept ==
    out.op = "prepare" =>
        LET b0 == metadataBlock(hist.doc)
            b  == metadataBlock(doc)
        IN  /\ out.params.model =
                   Precedence(hist.cache, KeyModel, settings.openAIChatModel,
                              DEFAULT_SETTINGS.openAIChatModel)
            /\ out.params.max_tokens =
                   Precedence(hist.cache, KeyMaxTokens, settings.openAIMaxTokens,
                              DEFAULT_SETTINGS.openAIMaxTokens)
            /\ out.params.temperature =
                   Precedence(hist.cache, KeyTemperature, settings.openAIChatTemperature,
                              DEFAULT_SETTINGS.openAIChatTemperature)
            /\ b0.present => b.present
            /\ Len(b.entries) >= Len(b0.entries)
            /\ \A i \in 1..Len(b0.entries) : b.entries[i] = b0.entries[i]

\* a resolution that took one field from the metadata, one from the settings and
\* one from the defaults, and wrote to a note that had a Metadata Block
C11_Witness ==
    /\ out.op = "prepare"
    /\ fmHas(hist.cache, KeyModel)
    /\ ~fmHas(hist.cache, KeyMaxTokens) /\ settings.openAIMaxTokens # Undefined
    /\ ~fmHas(hist.cache, KeyTemperature) /\ settings.openAIChatTemperature = Undefined
    /\ out.params.model = MetaValue(KeyModel)
    /\ out.params.max_tokens = settings.openAIMaxTokens
    /\ out.params.temperature = DEFAULT_SETTINGS.openAIChatTemperature
    /\ doc # hist.doc

\* the field of the request parameters that a metadata key configures
ParamOf(params, key) ==
    IF key = KeyModel THEN params.model
    ELSE IF key = KeyMaxTokens THEN params.max_tokens
    ELSE IF key = KeyTemperature THEN params.temperature
    ELSE IF key = KeySystemMessage THEN params.system_message
    ELSE IF key = KeyFrequencyPenalty THEN params.frequency_penalty
    ELSE IF key = KeyPresencePenalty THEN params.presence_penalty
    ELSE IF key = KeyN THEN params.n
    ELSE params.top_p

\* the line insertFrontmatterProperty writes for a key and a value
PropertyLine(key, value) == key \o <<":", " ">> \o value

\* the keys of lines 257-282
UnwrittenKeys == {KeyFrequencyPenalty, KeyPresencePenalty, KeyN, KeyTopP}

\* the eight keys of the resolved configuration
ConfigKeys == {MetaKeys[i] : i \in 1..Len(MetaKeys)} \cup UnwrittenKeys

RECURSIVE WriteBackLines(_, _, _)
\* the lines of the keys of MetaKeys (from the i-th on) that fm does not have, with
\* the values of params
WriteBackLines(fm, params, i) ==
    IF i > Len(MetaKeys) THEN <<>>
    ELSE (IF fmHas(fm, MetaKeys[i]) THEN <<>>
          ELSE <<PropertyLine(MetaKeys[i], ParamOf(params, MetaKeys[i]))>>)
         \o WriteBackLines(fm, params, i + 1)

-----------------------------------------------------------------------------
(* SpecRoles: parseMessages applied to documents in which the user has typed
   blocks in the marker syntax with a role of their own *)

\* role fields that are none of the three known ones
OtherRoles == {<<"t", "o", "o", "l">>, <<>>}

\* a block typed in the marker syntax with the given role field
typedBlock(role, content) ==
    <<NL>> \o MARKER_START \o <<";", " ", "r", "o", "l", "e", ":">> \o role \o <<";", " ">>
        \o MARKER_END \o <<" ">> \o content

RECURSIVE TypedDocFrom(_, _)
TypedDocFrom(roles, i) ==
    IF i > Len(roles) THEN <<>>
    ELSE (IF roles[i] \in OtherRoles \cup {RoleSystem}
          THEN typedBlock(roles[i], TurnContent(i))
          ELSE TurnBlock(roles[i], i)) \o TypedDocFrom(roles, i + 1)

TypedRoleLists == UNION {[1..n -> Roles \cup OtherRoles] : n \in 0..MaxTurns}

InitRoles ==
    /\ now = SomeDate
    /\ \E roles \in TypedRoleLists : doc = TypedDocFrom(roles, 1)
    /\ cursor = Len(doc)
    /\ selFrom = cursor
    /\ \E m \in {1, DEFAULT_SETTINGS.maxPreviousMessages} :
           settings = [DEFAULT_SETTINGS EXCEPT !.maxPreviousMessages = m]
    /\ cache = [present |-> FALSE]
    /\ pc = "idle"
    /\ req = NoRequest
    /\ out = NoOutcome
    /\ hist = NoHistory
    /\ ncmd = 0

SpecRoles == InitRoles /\ [][NextWindow]_vars

\* C13: every turn that parseMessages returns has a role in {system, user,
\* assistant}; a block with any other role field is not in the result.
C13_OnlyKnownRolesDecoded ==
    out.op = "parseMessages" =>
        \A i \in 1..Len(out.messages) : out.messages[i].role \in Roles

-----------------------------------------------------------------------------
(* SpecTimestamp: insertTimestamp at different wall-clock readings *)

\* wall-clock readings: every month, first and 28th day, first and last hour and
\* minute
Dates ==
    [year : {2024}, month : 1..12, day : {1, 28}, hour : {0, 23}, minute : {0, 59}]

InitTimestamp ==
    /\ now \in Dates
    /\ settings = DEFAULT_SETTINGS
    /\ doc = <<>>
    /\ cursor = 0
    /\ selFrom = 0
    /\ cache = [present |-> FALSE]
    /\ pc = "idle"
    /\ req = NoRequest
    /\ out = NoOutcome
    /\ hist = NoHistory
    /\ ncmd = 0

\* one call of insertTimestamp()
CallInsertTimestamp ==
    /\ out.op = "none"
    /\ out' = [op |-> "insertTimestamp", text |-> insertTimestamp]
    /\ UNCHANGED <<doc, cursor, selFrom, settings, cache, now, pc, req, hist, ncmd>>

NextTimestamp == CallInsertTimestamp

SpecTimestamp == InitTimestamp /\ [][NextTimestamp]_vars

\* C15: the text insertTimestamp returns is YYYY-MM-DDTHH:MM, where MM is the
\* calendar month number of the date (01 for January .. 12 for December) and the
\* day, hour and minute are the date's own, each padded to two digits.
C15_CalendarMonthInTimestamp ==
    out.op = "insertTimestamp" =>
        out.text = NumToString(now.year) \o <<"-">> \o PadStart2(NumToString(now.month))
                       \o <<"-">> \o PadStart2(NumToString(now.day))
                       \o <<"T">> \o PadStart2(NumToString(now.hour))
                       \o <<":">> \o PadStart2(NumToString(now.minute))

-----------------------------------------------------------------------------
(* SpecScan: the exec loop of parsePrompt, one iteration per step *)

\* the texts before the cursor
ScanTexts == UNION {[1..n -> {"/", "a", NL}] : n \in 0..MaxContent}

\* delimiters the settings tab stores: its text field passes any value on,
\* the empty one included
ScanHeads == PromptHeads \cup {<<>>}

\* parsePrompt has reached its loop: no selection, code blocks masked,
\* promptStartIndex = -1 and a fresh regular expression (lastIndex 0)
InitScan ==
    /\ now = SomeDate
    /\ \E head \in ScanHeads : settings = [DEFAULT_SETTINGS EXCEPT !.promptHead = head]
    /\ doc \in ScanTexts
    /\ cursor = Len(doc)
    /\ selFrom = cursor
    /\ cache = [present |-> FALSE]
    /\ pc = "scanning"
    /\ req = [kind |-> "scan", text |-> stripCodeBlocks(Substring(doc, 0, cursor)),
              lastIndex |-> 0, promptStartIndex |-> -1]
    /\ out = NoOutcome
    /\ hist = [op |-> "scan", odd |-> FALSE]
    /\ ncmd = 0

\* the offsets p >= lastIndex at which promptHeadRegex matches
ScanHits == {p \in req.lastIndex..Len(req.text) :
                 promptHeadRegexAt(req.text, settings.promptHead, p)}

\* promptHeadRegex.exec returns a match: the body of the loop runs; exec has set
\* lastIndex to the end of the match.  hist tells odd from even iterations.
ExecMatches ==
    /\ pc = "scanning"
    /\ ScanHits # {}
    /\ req' = [req EXCEPT !.lastIndex = SetMin(ScanHits) + Len(settings.promptHead),
                          !.promptStartIndex = SetMin(ScanHits)]
    /\ hist' = [hist EXCEPT !.odd = ~@]
    /\ UNCHANGED <<doc, cursor, selFrom, settings, cache, now, pc, out, ncmd>>

\* promptHeadRegex.exec returns null: the loop is left
ExecReturnsNull ==
    /\ pc = "scanning"
    /\ ScanHits = {}
    /\ pc' = "idle"
    /\ out' = [op |-> "scan", promptStartIndex |-> req.promptStartIndex,
               thrown |-> (req.promptStartIndex = -1)]
    /\ req' = NoRequest
    /\ UNCHANGED <<doc, cursor, selFrom, settings, cache, now, hist, ncmd>>

NextScan ==
    \/ ExecMatches
    \/ ExecReturnsNull

\* the loop is synchronous code: an iteration that can run does run
SpecScan == InitScan /\ [][NextScan]_vars /\ WF_vars(NextScan)

\* C16: the loop that searches the last delimiter finishes, for every text before
\* the cursor and every delimiter the settings can hold: the scan ends with a
\* delimiter position or with none (the abort).
C16_ScanTerminates == <>(pc = "idle" /\ out.op = "scan")

====
